---- MODULE Spec2Model ----
(***************************************************************************)
(* Boya Maritima V2: the pH sensor driver (src/src/sensor/sensor_ph.cpp)   *)
(* and the generator of the TTN payload decoder                            *)
(* (src/src/ttn_decoder_generator.cpp).                                    *)
(*                                                                         *)
(* Units.  The driver handles pH as a float; the model keeps pH in         *)
(* thousandths (7420 is pH 7.42), so that "multiply by 100 and truncate to *)
(* uint16_t" is a real conversion that loses the last digit.  Temperatures *)
(* are whole degrees Celsius.                                              *)
(*                                                                         *)
(* Every action is one complete call of a public function.  The variables  *)
(* lastOp, argNull, ret, nbytes, data_ph, written, events and decoded      *)
(* describe the last call (its argument, its results, what it touched), as  *)
(* do was_available, argVal, lib_ph and lib_temp (what it found and what it *)
(* exchanged with the DFRobot_PH library); the other variables are the      *)
(* state the program keeps between calls.                                   *)
(***************************************************************************)
EXTENDS Integers, Sequences, FiniteSets, TLC

VARIABLES
    sensor_available,   \* static bool sensor_available
    sensor_powered,     \* static bool sensor_powered
    temperature,        \* static float temperature (compensation input)
    power_pin,          \* level last driven on PH_POWER_PIN
    init_runs,          \* how many times ph_sensor.begin() has run
    buffer,             \* config->buffer of the caller of get_payload
    sel,                \* compile-time sensor selection (ENABLE_SENSOR_*)
    show,               \* compile-time SHOW_TTN_DECODER
    serial_prog,        \* decoder printed by generate_and_print_ttn_decoder
    str_out,            \* outcome of generate_ttn_decoder_string
    lastOp,             \* name of the last call
    argNull,            \* the last call's pointer argument was null
    ret,                \* bool returned by the last call
    nbytes,             \* count returned by the last call
    data_ph,            \* the pH field of the record the last call worked on
    written,            \* indices of buffer written by the last call
    events,             \* hardware and library calls made by the last call
    decoded,            \* what the emitted decoder returned in the last call
    was_available,      \* sensor_available when the last call was entered
    argVal,             \* scalar input of the last call: temp, Serial.available(), max_size
    lib_ph,             \* what ph_sensor.readPH returned in the last call
    lib_temp            \* temperature handed to readPH / calibration in the last call

driverVars == <<sensor_available, sensor_powered, temperature, power_pin, init_runs, buffer>>
genVars == <<sel, show, serial_prog, str_out>>
callVars == <<lastOp, argNull, ret, nbytes, data_ph, written, events, decoded,
              was_available, argVal, lib_ph, lib_temp>>
vars == <<driverVars, genVars, callVars>>

----------------------------------------------------------------------------
(* Bounds of the model *)

\* sensor_ph_init may run this many times in one behaviour
MaxInitRuns == 2
\* bytes of config->buffer that the model keeps
BufLen == 3

(* Constants of config/config.h, which is not among the sources *)

PH_DEFAULT_TEMPERATURE == 25
\* the error sentinel, in thousandths of pH
SENSOR_ERROR_PH == -1000
PH_READ_SAMPLES == 2
\* the plausible range of a reading, in thousandths of pH
PH_MIN == 0
PH_MAX == 14000

(* Inputs *)

\* values ph_sensor.readPH can hand back, in thousandths of pH: below zero,
\* truncating to 0, in range (7.420 and 7.429 share a fixed-point value),
\* above PH_MAX, the largest that fits 16 bits, and one that does not fit
PhReadings == {-3140, 5, 7420, 7429, 15450, 655350, 655360}
\* arguments of sensor_ph_set_temperature, around both ends of its range
TempInputs == {-51, -50, 100, 101}
\* what an out-of-range float to uint16_t conversion may produce
UBKinds == {"zero", "saturate", "wrap"}
\* Serial.available() as seen by sensor_ph_process_serial
SerialPending == {0, 3}

Uninit == [set |-> FALSE, v |-> 0]
Value(v) == [set |-> TRUE, v |-> v]
NoDecode == [run |-> FALSE, by |-> "", fields |-> <<>>, len |-> 0, data |-> {}, warnings |-> <<>>]

----------------------------------------------------------------------------
(* The pH driver *)

\* the hardware as a call finds it; ev collects what the call does, lib_ph
\* and lib_temp what it exchanges with the library
Hw == [powered |-> sensor_powered, pin |-> power_pin, ev |-> <<>>,
       lib_ph |-> Uninit, lib_temp |-> Uninit]

\* a power_on that sets the flag without switching the pin
power_on_flag_only(hw) ==
    IF hw.powered THEN hw ELSE [hw EXCEPT !.powered = TRUE]

sensor_ph_power_on(hw) ==
    IF hw.powered THEN hw
    ELSE [hw EXCEPT !.powered = TRUE, !.pin = "HIGH",
                    !.ev = @ \o <<"pinMode_POWER_OUTPUT", "digitalWrite_HIGH",
                                  "delay_stabilize">>]

\* a power_off that clears the flag without switching the pin
power_off_flag_only(hw) ==
    IF ~hw.powered THEN hw ELSE [hw EXCEPT !.powered = FALSE]

sensor_ph_power_off(hw) ==
    IF ~hw.powered THEN hw
    ELSE [hw EXCEPT !.powered = FALSE, !.pin = "LOW",
                    !.ev = @ \o <<"digitalWrite_LOW", "delay_off">>]

\* one analogRead, tagged with the state of the rail when it is taken
Sample(hw) == IF hw.powered THEN "analogRead_on" ELSE "analogRead_off"

\* the sampling loop and the library call readPH(voltage, temperature), which
\* returns ph
read_ph_value(hw, ph) ==
    [hw EXCEPT !.ev = @ \o [i \in 1..PH_READ_SAMPLES |-> Sample(hw)] \o <<"readPH">>,
               !.lib_temp = Value(temperature),
               !.lib_ph = Value(ph)]

\* if (ph < PH_MIN || ph > PH_MAX): a warning on Serial, nothing else
RangeWarning(hw) ==
    IF hw.lib_ph.v < PH_MIN \/ hw.lib_ph.v > PH_MAX
    THEN [hw EXCEPT !.ev = @ \o <<"warn_out_of_range">>]
    ELSE hw

\* a read_all that treats a reading out of range as a failed read
read_all_rejecting(avail, dataNull, old, hw, ph) ==
    IF ~avail \/ dataNull THEN [ret |-> FALSE, ph |-> old, hw |-> hw]
    ELSE LET h == RangeWarning(read_ph_value(sensor_ph_power_on(hw), ph)) IN
         IF ph < PH_MIN \/ ph > PH_MAX
         THEN [ret |-> FALSE, ph |-> old, hw |-> sensor_ph_power_off(h)]
         ELSE [ret |-> TRUE, ph |-> h.lib_ph, hw |-> sensor_ph_power_off(h)]

\* result of sensor_ph_read_all on a record whose pH field holds old:
\* the bool returned, the field afterwards, the hardware afterwards
sensor_ph_read_all(avail, dataNull, old, hw, ph) ==
    IF ~avail \/ dataNull THEN [ret |-> FALSE, ph |-> old, hw |-> hw]
    ELSE LET h == RangeWarning(read_ph_value(sensor_ph_power_on(hw), ph)) IN
         [ret |-> TRUE, ph |-> h.lib_ph, hw |-> sensor_ph_power_off(h)]

\* data.ph * 100, truncated toward zero as the cast to an integer does
Times100(ph) == IF ph >= 0 THEN ph \div 10 ELSE -((-ph) \div 10)

\* (uint16_t)(data.ph * 100): defined when the truncated value fits 16 bits,
\* otherwise undefined behaviour, resolved by ub
ToUint16(ph, ub) ==
    LET t == Times100(ph) IN
    IF t \in 0..65535 THEN t
    ELSE CASE ub = "zero" -> 0
           [] ub = "saturate" -> 65535
           [] OTHER -> t % 65536

\* buffer[0] = ph_int >> 8; buffer[1] = ph_int & 0xFF
EncodePh(ph_int) == <<ph_int \div 256, ph_int % 256>>

\* a guard that forgets the availability flag
PayloadGuardNullOnly(cfgNull, avail) == cfgNull

\* if (!config || !sensor_available) return 0;
PayloadGuard(cfgNull, avail) == cfgNull \/ ~avail

\* a get_payload that omits the field when the reading is below zero
get_payload_omitting(cfgNull, avail, hw, ph, ub) ==
    IF PayloadGuard(cfgNull, avail) \/ ph < 0
    THEN [ret |-> 0, bytes |-> <<>>, ph |-> Uninit, hw |-> hw, failed |-> FALSE]
    ELSE LET r == sensor_ph_read_all(avail, FALSE, Uninit, hw, ph)
             d == IF ~r.ret THEN Value(SENSOR_ERROR_PH) ELSE r.ph
         IN [ret |-> 2, bytes |-> EncodePh(ToUint16(d.v, ub)), ph |-> d,
             hw |-> r.hw, failed |-> ~r.ret]

\* a get_payload whose nested read finds the flag cleared behind its back
get_payload_preempted(cfgNull, avail, hw, ph, ub) ==
    IF PayloadGuard(cfgNull, avail)
    THEN [ret |-> 0, bytes |-> <<>>, ph |-> Uninit, hw |-> hw, failed |-> FALSE]
    ELSE LET r == sensor_ph_read_all(avail /\ ph >= 0, FALSE, Uninit, hw, ph)
             d == IF ~r.ret THEN Value(SENSOR_ERROR_PH) ELSE r.ph
         IN [ret |-> 2, bytes |-> EncodePh(ToUint16(d.v, ub)), ph |-> d,
             hw |-> r.hw, failed |-> ~r.ret]

\* result of sensor_ph_get_payload: the count returned, the bytes stored at
\* buffer[0..], the local record's pH field, the hardware afterwards, and
\* whether the nested read failed
sensor_ph_get_payload(cfgNull, avail, hw, ph, ub) ==
    IF PayloadGuard(cfgNull, avail)
    THEN [ret |-> 0, bytes |-> <<>>, ph |-> Uninit, hw |-> hw, failed |-> FALSE]
    ELSE LET r == sensor_ph_read_all(avail, FALSE, Uninit, hw, ph)
             d == IF ~r.ret THEN Value(SENSOR_ERROR_PH) ELSE r.ph
         IN [ret |-> 2, bytes |-> EncodePh(ToUint16(d.v, ub)), ph |-> d,
             hw |-> r.hw, failed |-> ~r.ret]

\* buffer after storing bytes at indices 0 .. Len(bytes)-1
Store(buf, bytes) ==
    [i \in 0..(BufLen - 1) |-> IF i < Len(bytes) THEN bytes[i + 1] ELSE buf[i]]

\* the call record of an operation of the driver
Call(op, null, r, n, ph, w, ev) ==
    /\ lastOp' = op
    /\ argNull' = null
    /\ ret' = r
    /\ nbytes' = n
    /\ data_ph' = ph
    /\ written' = w
    /\ events' = ev
    /\ decoded' = NoDecode
    /\ was_available' = sensor_available

\* what a call was given and what it exchanged with the library
Lib(a, hw) ==
    /\ argVal' = a
    /\ lib_ph' = hw.lib_ph
    /\ lib_temp' = hw.lib_temp

\* an init that reports success without setting the flag
InitBodyFlagForgotten ==
    [ret |-> TRUE, available |-> sensor_available,
     ev |-> <<"pinMode_ADC_INPUT", "pinMode_POWER_OUTPUT", "begin">>]

\* an init whose probe of the sensor fails
InitBodyProbeFails ==
    [ret |-> FALSE, available |-> FALSE,
     ev |-> <<"pinMode_ADC_INPUT", "pinMode_POWER_OUTPUT", "begin">>]

\* sensor_ph_init: the bool it returns, the flag it leaves, what it calls
InitBody ==
    [ret |-> TRUE, available |-> TRUE,
     ev |-> <<"pinMode_ADC_INPUT", "pinMode_POWER_OUTPUT", "begin">>]

\* a retry that re-runs init whatever the flag says
RetryBodyAlways(avail) ==
    [ret |-> InitBody.ret, available |-> InitBody.available,
     ev |-> InitBody.ev, runs |-> 1]

\* a retry whose test of the flag is inverted
RetryBodyInverted(avail) ==
    IF ~avail THEN [ret |-> TRUE, available |-> avail, ev |-> <<>>, runs |-> 0]
    ELSE [ret |-> InitBody.ret, available |-> InitBody.available,
          ev |-> InitBody.ev, runs |-> 1]

\* sensor_ph_retry_init: as InitBody, with the number of runs of init
RetryBody(avail) ==
    IF avail THEN [ret |-> TRUE, available |-> avail, ev |-> <<>>, runs |-> 0]
    ELSE [ret |-> InitBody.ret, available |-> InitBody.available,
          ev |-> InitBody.ev, runs |-> 1]

sensor_ph_init ==
    /\ init_runs < MaxInitRuns
    /\ init_runs' = init_runs + 1
    /\ sensor_available' = InitBody.available
    /\ UNCHANGED <<sensor_powered, temperature, power_pin, buffer, genVars>>
    /\ Call("init", FALSE, InitBody.ret, 0, Uninit, {}, InitBody.ev)
    /\ Lib(0, Hw)

sensor_ph_retry_init ==
    LET r == RetryBody(sensor_available) IN
    /\ init_runs + r.runs <= MaxInitRuns
    /\ init_runs' = init_runs + r.runs
    /\ sensor_available' = r.available
    /\ UNCHANGED <<sensor_powered, temperature, power_pin, buffer, genVars>>
    /\ Call("retry_init", FALSE, r.ret, 0, Uninit, {}, r.ev)
    /\ Lib(0, Hw)

\* a range test that leaves out both ends
AcceptedExclusive(temp) == temp > -50 /\ temp < 100

\* if (temp >= -50.0f && temp <= 100.0f)
Accepted(temp) == temp >= -50 /\ temp <= 100

sensor_ph_set_temperature ==
    \E temp \in TempInputs :
        /\ temperature' = IF Accepted(temp) THEN temp ELSE temperature
        /\ UNCHANGED <<sensor_available, sensor_powered, power_pin, init_runs, buffer, genVars>>
        /\ Call("set_temperature", FALSE, FALSE, 0, Uninit, {}, <<>>)
        /\ Lib(temp, Hw)

\* a read_all that probes the sensor again by itself when it is unavailable
read_all_call_reprobing ==
    \E dataNull \in BOOLEAN, ph \in PhReadings, old \in {Uninit, Value(7420)} :
        LET r == sensor_ph_read_all(TRUE, dataNull, old, Hw, ph) IN
        /\ sensor_available' = TRUE
        /\ sensor_powered' = r.hw.powered
        /\ power_pin' = r.hw.pin
        /\ UNCHANGED <<temperature, init_runs, buffer, genVars>>
        /\ Call("read_all", dataNull, r.ret, 0, r.ph, {}, r.hw.ev)
        /\ Lib(0, r.hw)

\* a read_all that marks the sensor unavailable after an implausible reading
read_all_call_demoting ==
    \E dataNull \in BOOLEAN, ph \in PhReadings, old \in {Uninit, Value(7420)} :
        LET r == sensor_ph_read_all(sensor_available, dataNull, old, Hw, ph) IN
        /\ sensor_available' = (sensor_available /\ ~(r.ret /\ (ph < PH_MIN \/ ph > PH_MAX)))
        /\ sensor_powered' = r.hw.powered
        /\ power_pin' = r.hw.pin
        /\ UNCHANGED <<temperature, init_runs, buffer, genVars>>
        /\ Call("read_all", dataNull, r.ret, 0, r.ph, {}, r.hw.ev)
        /\ Lib(0, r.hw)

sensor_ph_read_all_call ==
    \E dataNull \in BOOLEAN, ph \in PhReadings, old \in {Uninit, Value(7420)} :
        LET r == sensor_ph_read_all(sensor_available, dataNull, old, Hw, ph) IN
        /\ sensor_powered' = r.hw.powered
        /\ power_pin' = r.hw.pin
        /\ UNCHANGED <<sensor_available, temperature, init_runs, buffer, genVars>>
        /\ Call("read_all", dataNull, r.ret, 0, r.ph, {}, r.hw.ev)
        /\ Lib(0, r.hw)

sensor_ph_get_payload_call ==
    \E cfgNull \in BOOLEAN, ph \in PhReadings, ub \in UBKinds :
        LET r == sensor_ph_get_payload(cfgNull, sensor_available, Hw, ph, ub) IN
        /\ buffer' = Store(buffer, r.bytes)
        /\ sensor_powered' = r.hw.powered
        /\ power_pin' = r.hw.pin
        /\ UNCHANGED <<sensor_available, temperature, init_runs, genVars>>
        /\ Call("get_payload", cfgNull, r.failed, r.ret, r.ph,
                0..(Len(r.bytes) - 1), r.hw.ev)
        /\ Lib(0, r.hw)

sensor_ph_set_available_for_testing ==
    \E available \in BOOLEAN :
        /\ sensor_available' = available
        /\ UNCHANGED <<sensor_powered, temperature, power_pin, init_runs, buffer, genVars>>
        /\ Call("set_available_for_testing", FALSE, FALSE, 0, Uninit, {}, <<>>)
        /\ Lib(0, Hw)

\* a process_serial that does not look at Serial.available()
process_serial_unconditional(avail, pending, hw) ==
    IF ~avail THEN hw
    ELSE LET h1 == sensor_ph_power_on(hw)
             h2 == [h1 EXCEPT !.ev = @ \o <<Sample(h1), "calibration">>,
                              !.lib_temp = Value(temperature)]
         IN sensor_ph_power_off(h2)

\* what sensor_ph_process_serial does to the hardware and hands to
\* ph_sensor.calibration(voltage, temperature)
process_serial(avail, pending, hw) ==
    IF ~avail \/ pending = 0 THEN hw
    ELSE LET h1 == sensor_ph_power_on(hw)
             h2 == [h1 EXCEPT !.ev = @ \o <<Sample(h1), "calibration">>,
                              !.lib_temp = Value(temperature)]
         IN sensor_ph_power_off(h2)

sensor_ph_process_serial ==
    \E pending \in SerialPending :
        LET h == process_serial(sensor_available, pending, Hw) IN
        /\ sensor_powered' = h.powered
        /\ power_pin' = h.pin
        /\ UNCHANGED <<sensor_available, temperature, init_runs, buffer, genVars>>
        /\ Call("process_serial", FALSE, FALSE, 0, Uninit, {}, h.ev)
        /\ Lib(pending, h)

----------------------------------------------------------------------------
(* The generator of the TTN decoder *)

Sensors == {"PH", "BME280", "DS18B20"}

\* "if (bytes.length !== 12)", in both emitters
EXPECTED_LENGTH == 12

\* A statement of the emitted JavaScript.  begin: var data = {}, offset = 0;
\* check: return early with a warning unless bytes.length is expect;
\* u8: data.key = bytes[offset++];
\* u16le: data.key = (bytes[offset++] | (bytes[offset++] << 8)) / div;
\* return: return { data: data }
\* return_all: return { data: data, warnings: [], errors: [] }
Stmt(op, key, div, expect) == [op |-> op, key |-> key, div |-> div, expect |-> expect]

print_decoder_header == << Stmt("begin", "", 1, 0) >>
print_battery_percent_decoder == << Stmt("u8", "battery_percent", 1, 0) >>
print_ph_decoder == << Stmt("u16le", "ph", 100, 0) >>
print_temperature_ext_decoder == << Stmt("u16le", "temperature_ext", 100, 0) >>
print_temperature_water_decoder == << Stmt("u16le", "temperature_water_1m", 100, 0) >>
print_humidity_decoder == << Stmt("u16le", "humidity", 100, 0) >>
\* a pressure step that divides like the other fields
print_pressure_decoder_div100 == << Stmt("u16le", "pressure", 100, 0) >>
print_pressure_decoder == << Stmt("u16le", "pressure", 10, 0) >>
print_payload_validation == << Stmt("check", "", 1, EXPECTED_LENGTH) >>
print_decoder_footer == << Stmt("return", "", 1, 0) >>
\* the footer of the string: return { data: data, warnings: [], errors: [] }
string_footer == << Stmt("return_all", "", 1, 0) >>

If(c, prog) == IF c THEN prog ELSE <<>>

\* the routine generate_and_print_ttn_decoder prints for selection s
generate_and_print_ttn_decoder(s, shown) ==
    IF shown = 0 THEN <<>>
    ELSE print_decoder_header
         \o print_payload_validation
         \o print_battery_percent_decoder
         \o If("PH" \in s, print_ph_decoder)
         \o If("BME280" \in s, print_temperature_ext_decoder)
         \o If("DS18B20" \in s, print_temperature_water_decoder)
         \o If("BME280" \in s, print_humidity_decoder \o print_pressure_decoder)
         \o print_decoder_footer

\* lengths of the string literals of generate_ttn_decoder_string
LEN_HEADER == 214
LEN_BATTERY == 42
LEN_PH == 85
LEN_TEMP_EXT == 110
LEN_TEMP_WATER == 119
LEN_HUM_PRES == 205
LEN_FOOTER == 54

Chunk(n, prog) == [len |-> n, prog |-> prog]

\* a string whose length check comes after the battery byte
StringChunksLateCheck(s) ==
    << Chunk(LEN_HEADER, print_decoder_header),
       Chunk(LEN_BATTERY, print_battery_percent_decoder \o print_payload_validation) >>
    \o If("PH" \in s, << Chunk(LEN_PH, print_ph_decoder) >>)
    \o If("BME280" \in s, << Chunk(LEN_TEMP_EXT, print_temperature_ext_decoder) >>)
    \o If("DS18B20" \in s, << Chunk(LEN_TEMP_WATER, print_temperature_water_decoder) >>)
    \o If("BME280" \in s,
          << Chunk(LEN_HUM_PRES, print_humidity_decoder \o print_pressure_decoder) >>)
    \o << Chunk(LEN_FOOTER, string_footer) >>

\* the snprintf calls of generate_ttn_decoder_string for selection s, in order
StringChunks(s) ==
    << Chunk(LEN_HEADER, print_decoder_header \o print_payload_validation),
       Chunk(LEN_BATTERY, print_battery_percent_decoder) >>
    \o If("PH" \in s, << Chunk(LEN_PH, print_ph_decoder) >>)
    \o If("BME280" \in s, << Chunk(LEN_TEMP_EXT, print_temperature_ext_decoder) >>)
    \o If("DS18B20" \in s, << Chunk(LEN_TEMP_WATER, print_temperature_water_decoder) >>)
    \o If("BME280" \in s,
          << Chunk(LEN_HUM_PRES, print_humidity_decoder \o print_pressure_decoder) >>)
    \o << Chunk(LEN_FOOTER, string_footer) >>

Min(a, b) == IF a < b THEN a ELSE b

NoString ==
    [ret |-> 0, stored |-> 0, overflow |-> FALSE, negative |-> FALSE,
     prog |-> <<>>, whole |-> FALSE]

\* One "offset += snprintf(buffer + offset, max_size - offset, text)" per
\* chunk.  offset is a uint16_t; the size argument is the int max_size - offset
\* converted to size_t.  With a positive size snprintf stores at most size - 1
\* characters and a NUL and returns the length of the text.  A negative size
\* becomes a huge size_t: a libc that accepts it stores the whole text past
\* the end of the buffer, newlib refuses sizes above INT_MAX and returns -1.
\* stored counts the characters put in memory, overflow tells whether one
\* landed at or beyond buffer + max_size, negative whether a size was negative.
RECURSIVE Emit(_, _, _, _)
Emit(chunks, max_size, libc, st) ==
    IF chunks = <<>> THEN st
    ELSE LET c == Head(chunks)
             size == max_size - st.offset
             refused == size < 0 /\ libc = "newlib"
             n == IF size > 0 THEN Min(c.len, size - 1)
                  ELSE IF size = 0 \/ refused THEN 0 ELSE c.len
             r == IF refused THEN -1 ELSE c.len
             whole == st.whole /\ n = c.len
         IN Emit(Tail(chunks), max_size, libc,
                 [offset |-> (st.offset + r) % 65536,
                  stored |-> st.stored + n,
                  overflow |-> st.overflow \/ (size < 0 /\ ~refused /\ c.len > 0),
                  negative |-> st.negative \/ size < 0,
                  prog |-> IF whole THEN st.prog \o c.prog ELSE st.prog,
                  whole |-> whole])

generate_ttn_decoder_string(bufNull, max_size, s, libc) ==
    IF bufNull \/ max_size < 100 THEN NoString
    ELSE LET st == Emit(StringChunks(s), max_size, libc,
                        [offset |-> 0, stored |-> 0, overflow |-> FALSE,
                         negative |-> FALSE, prog |-> <<>>, whole |-> TRUE])
         IN [ret |-> st.offset, stored |-> st.stored, overflow |-> st.overflow,
             negative |-> st.negative, prog |-> st.prog, whole |-> st.whole]

\* the payload layout print_configuration_info documents: field, bytes, scale
print_configuration_info ==
    << [key |-> "battery_percent", width |-> 1, div |-> 1, sensor |-> "",
        first |-> 0],
       [key |-> "ph", width |-> 2, div |-> 100, sensor |-> "PH", first |-> 1],
       [key |-> "temperature_ext", width |-> 2, div |-> 100, sensor |-> "BME280",
        first |-> 3],
       [key |-> "temperature_water_1m", width |-> 2, div |-> 100,
        sensor |-> "DS18B20", first |-> 5],
       [key |-> "humidity", width |-> 2, div |-> 100, sensor |-> "BME280",
        first |-> 7],
       [key |-> "pressure", width |-> 2, div |-> 10, sensor |-> "BME280",
        first |-> 9] >>

----------------------------------------------------------------------------
(* Running the emitted decoder, as the JavaScript it is *)

\* bytes[offset] of a JavaScript array: -1 stands for undefined
ByteAt(bytes, offset) == IF offset < Len(bytes) THEN bytes[offset + 1] ELSE -1

\* an operand of | and <<: undefined converts to 0
ToInt32(b) == IF b < 0 THEN 0 ELSE b

\* bytes[offset++] | (bytes[offset++] << 8)
ReadU16LE(bytes, offset) ==
    ToInt32(ByteAt(bytes, offset)) + 256 * ToInt32(ByteAt(bytes, offset + 1))

Entry(key, raw, div) == [key |-> key, raw |-> raw, div |-> div]

\* decodeUplink: data maps key to raw / div; a u8 of raw -1 is undefined
RECURSIVE Exec(_, _, _, _)
Exec(prog, bytes, offset, data) ==
    IF prog = <<>> THEN [data |-> data, warnings |-> <<>>]
    ELSE LET s == Head(prog) IN
         CASE s.op = "begin" -> Exec(Tail(prog), bytes, 0, {})
           [] s.op = "check" ->
                IF Len(bytes) # s.expect
                THEN [data |-> data, warnings |-> <<"Payload size">>]
                ELSE Exec(Tail(prog), bytes, offset, data)
           [] s.op = "u8" ->
                Exec(Tail(prog), bytes, offset + 1,
                     data \cup {Entry(s.key, ByteAt(bytes, offset), s.div)})
           [] s.op = "u16le" ->
                Exec(Tail(prog), bytes, offset + 2,
                     data \cup {Entry(s.key, ReadU16LE(bytes, offset), s.div)})
           [] OTHER -> [data |-> data, warnings |-> <<>>]

decodeUplink(prog, bytes) == Exec(prog, bytes, 0, {})

----------------------------------------------------------------------------
(* Payloads handed to the decoder.  The encoder sensors_get_payload is not   *)
(* among the sources; these follow the wire format of the specification:     *)
(* one byte of battery, then 16-bit little-endian fixed-point fields.        *)

\* the scaled values of the specification's scenario (pH 7.42 is 742)
FieldValue(key) ==
    CASE key = "battery_percent" -> 87
      [] key = "ph" -> 742
      [] key = "temperature_ext" -> 2135
      [] key = "temperature_water_1m" -> 1800
      [] key = "humidity" -> 5512
      [] OTHER -> 10132

FieldDiv(key) ==
    CASE key = "battery_percent" -> 1
      [] key = "pressure" -> 10
      [] OTHER -> 100

EncodeField(key) ==
    IF key = "battery_percent" THEN << FieldValue(key) >>
    ELSE << FieldValue(key) % 256, FieldValue(key) \div 256 >>

RECURSIVE EncodeFields(_)
EncodeFields(fields) ==
    IF fields = <<>> THEN <<>>
    ELSE EncodeField(Head(fields)) \o EncodeFields(Tail(fields))

\* the canonical category order of the payload encoder
CanonicalOrder ==
    << "battery_percent", "ph", "temperature_ext", "humidity", "pressure",
       "temperature_water_1m" >>

\* a payload carrying fields, followed by pad further bytes
Payload(fields, pad) ==
    [fields |-> fields, bytes |-> EncodeFields(fields) \o [i \in 1..pad |-> 0]]

TestPayloads ==
    { Payload(<< "battery_percent" >>, 0),
      Payload(<< "battery_percent", "ph", "temperature_ext", "temperature_water_1m" >>, 0),
      Payload(CanonicalOrder, 0),
      Payload(CanonicalOrder, 1) }

\* buffer sizes handed to generate_ttn_decoder_string: below the minimum,
\* the minimum (too small for the text), and ample
MaxSizes == {99, 100, 1000}
Libcs == {"accepting", "newlib"}

----------------------------------------------------------------------------
(* Operations of the generator and of the emitted decoder *)

GenCall(op, null, n, d) ==
    /\ lastOp' = op
    /\ argNull' = null
    /\ ret' = FALSE
    /\ nbytes' = n
    /\ data_ph' = Uninit
    /\ written' = {}
    /\ events' = <<>>
    /\ decoded' = d
    /\ was_available' = sensor_available
    /\ lib_ph' = Uninit
    /\ lib_temp' = Uninit

GenerateAndPrint ==
    /\ serial_prog' = generate_and_print_ttn_decoder(sel, show)
    /\ UNCHANGED <<driverVars, sel, show, str_out>>
    /\ GenCall("generate_and_print_ttn_decoder", FALSE, 0, NoDecode)
    /\ argVal' = 0

GenerateString ==
    \E bufNull \in BOOLEAN, max_size \in MaxSizes, libc \in Libcs :
        LET r == generate_ttn_decoder_string(bufNull, max_size, sel, libc) IN
        /\ str_out' = r
        /\ UNCHANGED <<driverVars, sel, show, serial_prog>>
        /\ GenCall("generate_ttn_decoder_string", bufNull, r.ret, NoDecode)
        /\ argVal' = max_size

\* the network console runs an emitted decoder on a received payload
DecodeUplink ==
    \E by \in {"serial", "string"}, p \in TestPayloads :
        LET prog == IF by = "serial" THEN serial_prog ELSE str_out.prog
            r == decodeUplink(prog, p.bytes)
        IN
        /\ IF by = "serial" THEN serial_prog # <<>> ELSE str_out.whole
        /\ UNCHANGED <<driverVars, genVars>>
        /\ GenCall("decodeUplink", FALSE, 0,
                   [run |-> TRUE, by |-> by, fields |-> p.fields,
                    len |-> Len(p.bytes), data |-> r.data, warnings |-> r.warnings])
        /\ argVal' = 0

----------------------------------------------------------------------------

\* what the last call reports when nothing has been called yet
Boot ==
    /\ lastOp = "boot"
    /\ argNull = FALSE
    /\ ret = FALSE
    /\ nbytes = 0
    /\ data_ph = Uninit
    /\ written = {}
    /\ events = <<>>
    /\ decoded = NoDecode
    /\ was_available = FALSE
    /\ argVal = 0
    /\ lib_ph = Uninit
    /\ lib_temp = Uninit

DriverInit ==
    /\ sensor_available = FALSE
    /\ sensor_powered = FALSE
    /\ temperature = PH_DEFAULT_TEMPERATURE
    /\ power_pin = "unset"
    /\ init_runs = 0
    /\ buffer = [i \in 0..(BufLen - 1) |-> 170]

GenInit ==
    /\ serial_prog = <<>>
    /\ str_out = NoString

(* The pH driver.  sensor_ph.cpp is compiled only under ENABLE_SENSOR_PH; the *)
(* driver shares no state with the generator, whose build options are those  *)
(* of the reference build here.                                              *)

Init ==
    /\ DriverInit
    /\ GenInit
    /\ sel = Sensors
    /\ show = 0
    /\ Boot

Next ==
    \/ sensor_ph_init
    \/ sensor_ph_retry_init
    \/ sensor_ph_set_temperature
    \/ sensor_ph_read_all_call
    \/ sensor_ph_get_payload_call
    \/ sensor_ph_set_available_for_testing
    \/ sensor_ph_process_serial

Spec == Init /\ [][Next]_vars

(* The generator and the decoders it emits, for every build selection *)

InitGen ==
    /\ DriverInit
    /\ GenInit
    /\ sel \in SUBSET Sensors
    /\ show \in {0, 1}
    /\ Boot

NextGen ==
    \/ GenerateAndPrint
    \/ GenerateString
    \/ DecodeUplink

SpecGen == InitGen /\ [][NextGen]_vars

----------------------------------------------------------------------------
(* Properties *)

Abs(x) == IF x < 0 THEN -x ELSE x

\* get_payload has just encoded a reading whose fixed-point value fits 16 bits
Encoded ==
    /\ lastOp = "get_payload"
    /\ nbytes = 2
    /\ data_ph.set
    /\ Times100(data_ph.v) \in 0..65535

\* C1 (as claimed): when the driver is available and config is non-null,
\* get_payload stores v = pH x 100 little-endian: buffer[0] is the low byte
\* v mod 256 and buffer[1] the high byte v div 256.
C1_LittleEndian ==
    Encoded =>
        /\ buffer[0] = Times100(data_ph.v) % 256
        /\ buffer[1] = Times100(data_ph.v) \div 256

\* the pH decode step of the decoder emitted for this build
EmittedPhStep ==
    SelectSeq(generate_ttn_decoder_string(FALSE, 1000, sel, "newlib").prog,
              LAMBDA st : st.op = "begin" \/ st.key = "ph")

\* the pH the emitted step decodes from the two bytes of the buffer, in
\* thousandths
DecodedPh ==
    LET d == decodeUplink(EmittedPhStep, << buffer[0], buffer[1] >>).data
        e == CHOOSE x \in d : x.key = "ph"
    IN (e.raw * 1000) \div e.div

\* C2 (as claimed): the two bytes get_payload stores, decoded by the emitted
\* pH step (ph_raw = bytes[o] | bytes[o+1] << 8; ph = ph_raw / 100), give
\* back the pH that was read within 0.01.
C2_RoundTrip ==
    Encoded => Abs(DecodedPh - data_ph.v) <= 10

\* C3: get_payload with a non-null config returns 0 and leaves the buffer as
\* it was when the driver is unavailable, and returns 2 having written
\* exactly buffer[0] and buffer[1] when it is available.
C3_WidthIffAvailable ==
    [][(lastOp' = "get_payload" /\ ~argNull') =>
          IF sensor_available
          THEN /\ nbytes' = 2
               /\ written' = {0, 1}
               /\ \A i \in 2..(BufLen - 1) : buffer'[i] = buffer[i]
          ELSE /\ nbytes' = 0
               /\ written' = {}
               /\ buffer' = buffer]_vars

C3_Witness ==
    /\ lastOp = "get_payload"
    /\ ~argNull
    /\ sensor_available
    /\ nbytes = 2
    /\ written = {0, 1}
    /\ init_runs > 0

\* the field of the last get_payload holds the error sentinel
SentinelEncoded ==
    /\ data_ph = Value(SENSOR_ERROR_PH)
    /\ \E ub \in UBKinds :
          << buffer[0], buffer[1] >> = EncodePh(ToUint16(SENSOR_ERROR_PH, ub))

\* C4 (as claimed): a read that fails inside get_payload yields the sentinel
\* and the full width 2, and get_payload returns 0 only when the driver is
\* unavailable.
C4_ZeroOnlyWhenUnavailable ==
    lastOp = "get_payload" =>
        /\ ret => (nbytes = 2 /\ SentinelEncoded)
        /\ nbytes = 0 => ~sensor_available

\* C4 (amended): a read that fails inside get_payload yields the sentinel and
\* the full width 2, and get_payload returns 0 only when the driver is
\* unavailable or config is null, never because of the reading.
C4_ZeroOnlyWhenGuarded ==
    lastOp = "get_payload" =>
        /\ ret => (nbytes = 2 /\ SentinelEncoded)
        /\ nbytes = 0 => (~sensor_available \/ argNull)
        /\ nbytes \in {0, 2}

C4_Witness ==
    /\ lastOp = "get_payload"
    /\ nbytes = 0
    /\ argNull
    /\ sensor_available

\* C8: after init, is_available() agrees with the bool init returned: true
\* after an init that returned true, false after one that returned false.
C8_InitAgrees ==
    lastOp = "init" => (ret <=> sensor_available)

C8_Witness ==
    /\ lastOp = "init"
    /\ ret
    /\ sensor_available

\* C9: retry_init on an available driver returns true and changes nothing:
\* init is not run (no pin is configured, the library is not begun again) and
\* the availability flag, the power flag and pin and the stored temperature
\* keep their values.
C9_RetryNoop ==
    [][(sensor_available /\ lastOp' = "retry_init") =>
          /\ ret'
          /\ init_runs' = init_runs
          /\ events' = <<>>
          /\ UNCHANGED <<sensor_available, sensor_powered, power_pin, temperature>>]_vars

C9_Witness ==
    /\ lastOp = "retry_init"
    /\ ret
    /\ events = <<>>
    /\ sensor_available
    /\ init_runs = 1
    /\ temperature # PH_DEFAULT_TEMPERATURE

\* "begin" occurs exactly once in ev
OneBegin(ev) == Cardinality({i \in DOMAIN ev : ev[i] = "begin"}) = 1

\* C10: retry_init on an unavailable driver runs init exactly once, and the
\* outcome of init decides: the driver is available afterwards exactly when
\* retry_init returns true.
C10_RetryReprobes ==
    [][(~sensor_available /\ lastOp' = "retry_init") =>
          /\ init_runs' = init_runs + 1
          /\ OneBegin(events')
          /\ ret' <=> sensor_available']_vars

C10_Witness ==
    /\ lastOp = "retry_init"
    /\ OneBegin(events)
    /\ init_runs > 1
    /\ ret
    /\ sensor_available

\* C11 (as claimed): the test override aside, every step that takes the
\* driver from unavailable to available after it was marked unavailable
\* (so after an earlier init) is a retry_init step.
C11_OnlyRetryPromotes ==
    [][(~sensor_available /\ init_runs > 0 /\ sensor_available'
            /\ lastOp' # "set_available_for_testing")
          => lastOp' = "retry_init"]_vars

\* C11 (amended): the test override aside, every step that takes the driver
\* from unavailable to available is an explicit probe, retry_init or init;
\* no read, payload, temperature or calibration call does it.
C11_OnlyProbesPromote ==
    [][(~sensor_available /\ sensor_available'
            /\ lastOp' # "set_available_for_testing")
          => lastOp' \in {"retry_init", "init"}]_vars

C11_Witness ==
    /\ lastOp = "init"
    /\ ~was_available
    /\ sensor_available
    /\ init_runs > 1

Polls == {"read_all", "get_payload", "set_temperature", "process_serial"}

\* C12: read_all, get_payload, set_temperature and process_serial leave the
\* availability flag as it was, also when the reading is out of range or the
\* read fails.
C12_PollingKeepsFlag ==
    [][(lastOp' \in Polls) => sensor_available' = sensor_available]_vars

C12_Witness ==
    /\ lastOp = "read_all"
    /\ was_available
    /\ sensor_available
    /\ ret
    /\ data_ph.set
    /\ data_ph.v > PH_MAX

Has(ev, e) == \E i \in DOMAIN ev : ev[i] = e

Times(ev, e) == Cardinality({i \in DOMAIN ev : ev[i] = e})

PublicOps ==
    {"init", "retry_init", "read_all", "get_payload", "set_temperature",
     "process_serial"}

\* C13: at the return of every public operation of the driver, on the early
\* returns too, the rail is off: sensor_powered is false, the power pin is
\* not high, and an operation that drove the pin high drove it low afterwards
\* (before the first power-on the pin has only been made an output).
C13_RailOffAtReturn ==
    (lastOp \in PublicOps) =>
        /\ ~sensor_powered
        /\ power_pin # "HIGH"
        /\ \A i \in DOMAIN events :
              events[i] = "digitalWrite_HIGH" =>
                  /\ power_pin = "LOW"
                  /\ \E j \in DOMAIN events : j > i /\ events[j] = "digitalWrite_LOW"

C13_Witness ==
    /\ lastOp = "read_all"
    /\ ret
    /\ Has(events, "digitalWrite_HIGH")
    /\ events[Len(events)] = "delay_off"
    /\ power_pin = "LOW"
    /\ ~sensor_powered

\* C14 (as claimed): when read_all returns false with a record to fill, the
\* record's pH field holds SENSOR_ERROR_PH on return.
C14_SentinelOnFalse ==
    (lastOp = "read_all" /\ ~ret /\ ~argNull) => data_ph = Value(SENSOR_ERROR_PH)

\* C15: read_all returns true exactly when the driver is available and the
\* record pointer is not null, and then the record's pH field is the value
\* the library returned, in range or not.
C15_OutOfRangeStillStored ==
    (lastOp = "read_all") =>
        /\ ret <=> (was_available /\ ~argNull)
        /\ ret => (lib_ph.set /\ data_ph = lib_ph)

C15_Witness ==
    /\ lastOp = "read_all"
    /\ ret
    /\ Has(events, "warn_out_of_range")
    /\ data_ph.set
    /\ data_ph.v < PH_MIN

\* C16: set_temperature(t) stores t when -50 <= t <= 100 and otherwise leaves
\* the stored temperature; it leaves the rest of the driver state; nothing
\* else changes the stored temperature; the library is always handed the
\* stored temperature.
C16_SetTemperature ==
    [][/\ (lastOp' = "set_temperature") =>
              /\ temperature' = IF argVal' >= -50 /\ argVal' <= 100
                                 THEN argVal' ELSE temperature
              /\ UNCHANGED <<sensor_available, sensor_powered, power_pin,
                             init_runs, buffer>>
       /\ (temperature' # temperature) => lastOp' = "set_temperature"
       /\ lib_temp'.set => lib_temp' = Value(temperature)]_vars

C16_Witness ==
    /\ lastOp = "read_all"
    /\ ret
    /\ temperature = -50
    /\ lib_temp = Value(-50)

\* C17: process_serial with no input pending, or on an unavailable driver,
\* touches nothing: no rail switch, no sample, no calibration, no state
\* change; with input pending on an available driver it calls calibration
\* once, with the one sample taken just before and the stored temperature.
C17_ProcessSerial ==
    [][(lastOp' = "process_serial") =>
          IF argVal' = 0 \/ ~sensor_available
          THEN /\ events' = <<>>
               /\ ~lib_temp'.set
               /\ UNCHANGED <<sensor_available, sensor_powered, temperature,
                              power_pin, init_runs, buffer>>
          ELSE /\ Times(events', "calibration") = 1
               /\ Times(events', "analogRead_on") + Times(events', "analogRead_off") = 1
               /\ \E i \in DOMAIN events' :
                     /\ events'[i] \in {"analogRead_on", "analogRead_off"}
                     /\ events'[i + 1] = "calibration"
               /\ lib_temp' = Value(temperature)]_vars

C17_Witness ==
    /\ lastOp = "process_serial"
    /\ argVal > 0
    /\ was_available
    /\ Times(events, "calibration") = 1

\* C18: every ADC sample of an operation is taken with sensor_powered true,
\* after that operation's power-on and stabilization delay and before its
\* power-off.
C18_SampleWhilePowered ==
    \A i \in DOMAIN events :
        events[i] \in {"analogRead_on", "analogRead_off"} =>
            /\ events[i] = "analogRead_on"
            /\ \E h \in 1..(i - 1) :
                  /\ events[h] = "digitalWrite_HIGH"
                  /\ \E d \in (h + 1)..(i - 1) : events[d] = "delay_stabilize"
                  /\ \A k \in h..i : events[k] # "digitalWrite_LOW"
            /\ \E l \in DOMAIN events : l > i /\ events[l] = "digitalWrite_LOW"

C18_Witness ==
    /\ lastOp = "get_payload"
    /\ nbytes > 0
    /\ Times(events, "analogRead_on") = PH_READ_SAMPLES

\* C21: every init and every retry_init returns true and leaves the driver
\* available, and the availability flag is only ever cleared by the test
\* override: a driver that is not available has not run init yet or has
\* been through set_available_for_testing(false).
C21_ProbeCannotFail ==
    [][/\ (lastOp' \in {"init", "retry_init"}) => (ret' /\ sensor_available')
       /\ (sensor_available /\ ~sensor_available')
              => lastOp' = "set_available_for_testing"
       /\ (~sensor_available' /\ init_runs' > 0)
              => (~sensor_available \/ lastOp' = "set_available_for_testing")]_vars

C21_Witness ==
    /\ lastOp = "retry_init"
    /\ ~was_available
    /\ Has(events, "begin")
    /\ ret
    /\ sensor_available

\* C22: a get_payload that passes its guard never sees its nested read fail:
\* the sentinel is never assigned, and every 2-byte field stored is the
\* encoding of the value the library returned in that very call.
C22_SentinelUnreachable ==
    (lastOp = "get_payload") =>
        /\ ~ret
        /\ (nbytes = 2) =>
              /\ Times(events, "readPH") = 1
              /\ lib_ph.set
              /\ data_ph = lib_ph
              /\ \E ub \in UBKinds :
                    << buffer[0], buffer[1] >> = EncodePh(ToUint16(lib_ph.v, ub))

C22_Witness ==
    /\ lastOp = "get_payload"
    /\ nbytes = 2
    /\ ~ret
    /\ Times(events, "readPH") = 1
    /\ lib_ph = Value(-3140)
    /\ data_ph = lib_ph

----------------------------------------------------------------------------
(* Properties of the generator, under SpecGen *)

\* the fields a decoder reads, in order: key, bytes consumed, divisor
RECURSIVE Fields(_)
Fields(prog) ==
    IF prog = <<>> THEN <<>>
    ELSE LET s == Head(prog) IN
         (IF s.op = "u8" THEN << [key |-> s.key, width |-> 1, div |-> s.div] >>
          ELSE IF s.op = "u16le" THEN << [key |-> s.key, width |-> 2, div |-> s.div] >>
          ELSE <<>>)
         \o Fields(Tail(prog))

\* the sensor a field of the payload belongs to ("" for the battery)
SensorOf(key) ==
    CASE key = "battery_percent" -> ""
      [] key = "ph" -> "PH"
      [] key = "temperature_water_1m" -> "DS18B20"
      [] OTHER -> "BME280"

Compiled(s) == s \cup {""}

\* the canonical order restricted to the sensors compiled in
CanonicalFields(s) ==
    LET keys == SelectSeq(CanonicalOrder, LAMBDA k : SensorOf(k) \in Compiled(s))
    IN [i \in 1..Len(keys) |->
          [key |-> keys[i],
           width |-> IF keys[i] = "battery_percent" THEN 1 ELSE 2,
           div |-> FieldDiv(keys[i])]]

\* the layout print_configuration_info documents, restricted likewise
DocumentedFields(s) ==
    LET rows == SelectSeq(print_configuration_info,
                          LAMBDA r : r.sensor \in Compiled(s))
    IN [i \in 1..Len(rows) |->
          [key |-> rows[i].key, width |-> rows[i].width, div |-> rows[i].div]]

\* the decoders emitted so far
Emitted ==
    (IF serial_prog # <<>> THEN {serial_prog} ELSE {})
    \cup (IF str_out.whole THEN {str_out.prog} ELSE {})

\* C5 (as claimed): every emitted decoder walks the fields in the canonical
\* category order in which each driver's bytes are contiguous (battery, pH,
\* external temperature, humidity, pressure, water temperature), omitting the
\* sensors not compiled in, dividing by 100 and, for pressure, by 10.
C5_CanonicalOrder ==
    \A prog \in Emitted : Fields(prog) = CanonicalFields(sel)

\* C5 (amended): every emitted decoder walks the fields in the order the
\* generator documents: battery, pH, external temperature, water temperature,
\* humidity, pressure, so that the water temperature sits between the external
\* sensor's temperature and its humidity; fields of sensors not compiled in
\* are omitted, and the divisors are 100 and, for pressure, 10.
C5_DocumentedOrder ==
    \A prog \in Emitted : Fields(prog) = DocumentedFields(sel)

C5_Witness ==
    /\ sel = Sensors
    /\ serial_prog # <<>>
    /\ str_out.whole
    /\ Len(Fields(serial_prog)) = 6

RECURSIVE SumWidth(_)
SumWidth(fs) == IF fs = <<>> THEN 0 ELSE Head(fs).width + SumWidth(Tail(fs))

\* the lengths an emitted decoder checks bytes.length against
CheckedLengths(prog) == {prog[i].expect : i \in {j \in DOMAIN prog : prog[j].op = "check"}}

\* C6 (as claimed): the length an emitted decoder checks the received length
\* against is the total width of the fields it consumes: 1 for the battery
\* plus 2 for every 16-bit field of the selection.
C6_CheckedLengthIsWidth ==
    \A prog \in Emitted : CheckedLengths(prog) = {SumWidth(Fields(prog))}

\* the data mapping that holds exactly the fields of a payload
FieldsOf(fields) ==
    {Entry(fields[i], FieldValue(fields[i]), FieldDiv(fields[i])) : i \in DOMAIN fields}

\* C7 (as claimed): for a payload carrying only some of the fields, the
\* emitted decoder returns exactly the fields present with their values and
\* no other key; a length other than the configured one costs a warning, not
\* the decoded fields.
C7_SubsetDecoded ==
    (decoded.run /\ Len(decoded.fields) < Len(CanonicalOrder)) =>
        decoded.data = FieldsOf(decoded.fields)

\* C19 (as claimed): generate_ttn_decoder_string returns 0 and stores nothing
\* for a null buffer or max_size < 100; otherwise the offset it returns is at
\* most max_size, no size argument was negative, nothing was stored at or
\* beyond buffer + max_size, and the value returned is the number of
\* characters stored.
C19_ReturnsCharactersWritten ==
    (lastOp = "generate_ttn_decoder_string") =>
        IF argNull \/ argVal < 100
        THEN str_out.ret = 0 /\ str_out.stored = 0
        ELSE /\ str_out.ret <= argVal
             /\ ~str_out.negative
             /\ ~str_out.overflow
             /\ str_out.ret = str_out.stored

\* where a decoder checks the length: the number of fields read before it
CheckPlaces(prog) ==
    {Len(Fields(SubSeq(prog, 1, i))) : i \in {j \in DOMAIN prog : prog[j].op = "check"}}

\* C20: for every selection, the decoder printed and the decoder written to
\* the string read the same fields (names, order, widths, divisors), check
\* the same length at the same place, and return the same data for every
\* payload.
C20_EmittersAgree ==
    (serial_prog # <<>> /\ str_out.whole) =>
        /\ Fields(serial_prog) = Fields(str_out.prog)
        /\ CheckedLengths(serial_prog) = CheckedLengths(str_out.prog)
        /\ CheckPlaces(serial_prog) = CheckPlaces(str_out.prog)
        /\ \A p \in TestPayloads :
              decodeUplink(serial_prog, p.bytes).data
                  = decodeUplink(str_out.prog, p.bytes).data

C20_Witness ==
    /\ serial_prog # <<>>
    /\ str_out.whole
    /\ decoded.run
    /\ decoded.by = "string"
    /\ decoded.warnings # <<>>

====
